---- MODULE Spec2Model ----
(***************************************************************************)
(* HypeScreener backend: token discovery (loadTokens / loadInitialTokens), *)
(* enrichment (updateTokenData), scoring (calculateHypeScore), ranking     *)
(* (rankTokens), the Helius live listener and the REST handlers, over a    *)
(* shared Redis cache and a Pusher notification broker.                    *)
(*                                                                         *)
(* src/index.js holds the polling variant (the second copy of the file,    *)
(* lines 105-469, is the one with the DexScreener fallback);               *)
(* src/unnamed/part_000 holds the Helius WebSocket variant.  Both variants *)
(* use the same Redis keys, so they are modelled over one cache.           *)
(***************************************************************************)
EXTENDS Integers, Sequences, FiniteSets, TLC

(***************************************************************************)
(* JavaScript values                                                       *)
(***************************************************************************)
\* A JS number field: a finite number, NaN, or an absent (undefined) property.
Num(n) == [t |-> "num", n |-> n]
NaN == [t |-> "NaN", n |-> 0]
Undefined == [t |-> "undefined", n |-> 0]
\* A JSON value that is a string with no numeric prefix (parseFloat gives NaN).
Garbage == [t |-> "str", n |-> 0]

IsNum(x) == x.t = "num"

\* x > k for a JS value x and a number k: false for NaN and for undefined.
JsGt(x, k) == IsNum(x) /\ x.n > k
\* x < k, likewise.
JsLt(x, k) == IsNum(x) /\ x.n < k
\* JS truthiness of a number-valued property.
Truthy(x) == IsNum(x) /\ x.n # 0

\* parseFloat(v || 0) for a JSON property v.
ParseFloatOr0(v) ==
    IF v.t = "num" THEN Num(v.n)
    ELSE IF v.t = "str" THEN NaN
    ELSE Num(0)

Min(a, b) == IF a < b THEN a ELSE b
Abs(a) == IF a < 0 THEN 0 - a ELSE a

(***************************************************************************)
(* Strings that the code formats and parses are sequences of characters.   *)
(***************************************************************************)
Digits == <<"0", "1", "2", "3", "4", "5", "6", "7", "8", "9">>
DigitChars == {Digits[i] : i \in 1..10}
DigitVal(c) == (CHOOSE i \in 1..10 : Digits[i] = c) - 1

RECURSIVE NatToChars(_)
\* String(n) for a natural number n.
NatToChars(n) ==
    IF n < 10 THEN <<Digits[n + 1]>>
    ELSE NatToChars(n \div 10) \o <<Digits[(n % 10) + 1]>>

\* String(x) for a JS number x.
NumberToChars(x) ==
    IF ~IsNum(x) THEN <<"N", "a", "N">>
    ELSE IF x.n < 0 THEN <<"-">> \o NatToChars(0 - x.n)
    ELSE NatToChars(x.n)

\* Math.floor(ms / 3600000) + "h"
FormatAge(ms) ==
    (IF IsNum(ms) THEN NumberToChars(Num(ms.n \div 3600000)) ELSE NumberToChars(NaN))
        \o <<"h">>

NotAvailable == <<"N", "/", "A">>

\* The number of leading blanks of s.
LeadingSpaces(s) ==
    CHOOSE k \in 0..Len(s) :
        /\ \A i \in 1..k : s[i] = " "
        /\ k < Len(s) => s[k + 1] # " "

\* The length of the run of decimal digits of s that starts at index j.
DigitRun(s, j) ==
    CHOOSE k \in 0..(Len(s) + 1 - j) :
        /\ \A i \in j..(j + k - 1) : s[i] \in DigitChars
        /\ j + k <= Len(s) => s[j + k] \notin DigitChars

RECURSIVE DigitsValue(_, _, _)
\* The decimal value of s[j .. j + k - 1].
DigitsValue(s, j, k) ==
    IF k = 0 THEN 0 ELSE DigitsValue(s, j, k - 1) * 10 + DigitVal(s[j + k - 1])

\* parseInt(s): leading blanks, an optional sign, then decimal digits; NaN
\* when no digit follows.
ParseInt(s) ==
    LET i == LeadingSpaces(s) + 1
        neg == i <= Len(s) /\ s[i] = "-"
        j == IF i <= Len(s) /\ s[i] \in {"-", "+"} THEN i + 1 ELSE i
        k == DigitRun(s, j)
    IN  IF k = 0 THEN NaN
        ELSE IF neg THEN Num(0 - DigitsValue(s, j, k)) ELSE Num(DigitsValue(s, j, k))

(***************************************************************************)
(* Token Records                                                           *)
(***************************************************************************)
\* The object literal of loadTokens / the live listener / list-token: the
\* properties the literal does not set are absent.
BareToken(name, address, age, sponsored) ==
    [name |-> name, symbol |-> "undefined", address |-> address, age |-> age,
     marketCap |-> Num(0), volume |-> Num(0), liquidity |-> Undefined,
     price |-> Undefined, priceChange |-> Undefined, holders |-> Undefined,
     hypeScore |-> 0, xMentions |-> 0, chartData |-> <<>>,
     sponsored |-> sponsored]

(***************************************************************************)
(* Scoring Engine                                                          *)
(***************************************************************************)
ScoreCap == 95
ScoreBase == 60

\* A mutant of the age bonus: the second test is ageHours < 6 only when the
\* first one failed (else if), so a token younger than 3 hours gets 10.
AgeBonusElseIf(age) ==
    IF JsLt(ParseInt(age), 3) THEN 10 ELSE IF JsLt(ParseInt(age), 6) THEN 5 ELSE 0

\* if (!isNaN(ageHours)) { if (ageHours < 3) score += 10; if (ageHours < 6) score += 5; }
AgeBonus(age) ==
    (IF JsLt(ParseInt(age), 3) THEN 10 ELSE 0) + (IF JsLt(ParseInt(age), 6) THEN 5 ELSE 0)

\* marketCapMillions > 0.1 and > 0.5, with marketCapMillions = marketCap / 1000000:
\* marketCap * 10 > 1000000 and marketCap * 10 > 5000000.
MarketCapBonus(marketCap) ==
    (IF IsNum(marketCap) /\ marketCap.n * 10 > 1000000 THEN 5 ELSE 0)
        + (IF IsNum(marketCap) /\ marketCap.n * 10 > 5000000 THEN 5 ELSE 0)

\* token.volume > 5000 and > 20000
VolumeBonus(volume) ==
    (IF JsGt(volume, 5000) THEN 5 ELSE 0) + (IF JsGt(volume, 20000) THEN 5 ELSE 0)

\* token.priceChange > 10 and > 50 (index.js only)
PriceChangeBonus(priceChange) ==
    (IF JsGt(priceChange, 10) THEN 5 ELSE 0) + (IF JsGt(priceChange, 50) THEN 5 ELSE 0)

\* A mutant of calculateHypeScore: the final Math.min(score, 95) is missing.
calculateHypeScoreNoClamp(token, draw) ==
    ScoreBase + draw + AgeBonus(token.age) + MarketCapBonus(token.marketCap)
        + VolumeBonus(token.volume) + PriceChangeBonus(token.priceChange)

\* index.js calculateHypeScore; draw is Math.floor(Math.random() * 15).
calculateHypeScore(token, draw) ==
    Min(ScoreBase + draw + AgeBonus(token.age) + MarketCapBonus(token.marketCap)
            + VolumeBonus(token.volume) + PriceChangeBonus(token.priceChange),
        ScoreCap)

\* part_000 calculateHypeScore: no price-change bonus.
calculateHypeScoreHelius(token, draw) ==
    Min(ScoreBase + draw + AgeBonus(token.age) + MarketCapBonus(token.marketCap)
            + VolumeBonus(token.volume),
        ScoreCap)

\* generateXMentions; base is 50 + Math.floor(Math.random() * 200).  The two
\* multipliers are kept over the common denominator 50000.
generateXMentions(token, base) ==
    LET mc == IF Truthy(token.marketCap) THEN Min(token.marketCap.n, 250000) ELSE 50000
        vol == IF Truthy(token.volume) THEN Min(token.volume.n * 10, 250000) ELSE 50000
    IN  (base * (mc + vol)) \div 100000

(***************************************************************************)
(* Chart Synthesizer                                                       *)
(***************************************************************************)
ChartPoints == 11

\* generateChartData, in hundredths; noise is Math.random() * 0.3 - 0.1 in
\* tenths (one draw stands for the call's eleven draws).
generateChartData(token, noise) ==
    LET priceChange == IF Truthy(token.priceChange) THEN token.priceChange.n ELSE 0
    IN  IF priceChange >= 0
        THEN [i \in 1..ChartPoints |->
                1000 + 5 * (i - 1) * priceChange + noise * (i - 1) * priceChange]
        ELSE [i \in 1..ChartPoints |->
                3000 - 5 * (i - 1) * Abs(priceChange) + noise * (i - 1) * Abs(priceChange)]

(***************************************************************************)
(* Ranking                                                                 *)
(***************************************************************************)
TopN == 5

\* The place of tokens[i] once the list is sorted by descending hypeScore with
\* equal scores left in their order (Array.prototype.sort is stable).
RankOf(tokens, i) ==
    1 + Cardinality({j \in 1..Len(tokens) : tokens[j].hypeScore > tokens[i].hypeScore})
      + Cardinality({j \in 1..(i - 1) : tokens[j].hypeScore = tokens[i].hypeScore})

\* A mutant of rankTokens: the comparator is a.hypeScore - b.hypeScore.
rankTokensAscending(tokens) ==
    [p \in 1..Len(tokens) |->
        tokens[CHOOSE i \in 1..Len(tokens) :
            p = 1 + Cardinality({j \in 1..Len(tokens) :
                                    tokens[j].hypeScore < tokens[i].hypeScore})
                  + Cardinality({j \in 1..(i - 1) :
                                    tokens[j].hypeScore = tokens[i].hypeScore})]]

\* A mutant of rankTokens: tokens of equal hypeScore come out in reverse order.
rankTokensTiesReversed(tokens) ==
    [p \in 1..Len(tokens) |->
        tokens[CHOOSE i \in 1..Len(tokens) :
            p = 1 + Cardinality({j \in 1..Len(tokens) :
                                    tokens[j].hypeScore > tokens[i].hypeScore})
                  + Cardinality({j \in (i + 1)..Len(tokens) :
                                    tokens[j].hypeScore = tokens[i].hypeScore})]]

\* tokens.sort((a, b) => b.hypeScore - a.hypeScore)
rankTokens(tokens) ==
    [p \in 1..Len(tokens) |-> tokens[CHOOSE i \in 1..Len(tokens) : RankOf(tokens, i) = p]]

\* A mutant of the truncation: slice(0, 6).
TopOfOneMore(tokens) == SubSeq(tokens, 1, Min(Len(tokens), TopN + 1))

\* .slice(0, 5)
TopOf(tokens) == SubSeq(tokens, 1, Min(Len(tokens), TopN))

(***************************************************************************)
(* Market-data provider (DexScreener /latest/dex/tokens/<address>)         *)
(***************************************************************************)
\* A trading pair of a provider payload.  chainId and pairCreatedAt are read
\* by the fallback discovery only.
Pair(chainId, createdAt, name, symbol, address, fdv, vol, liq, price, change) ==
    [chainId |-> chainId, pairCreatedAt |-> createdAt, baseName |-> name,
     baseSymbol |-> symbol, baseAddress |-> address, fdv |-> fdv,
     volumeH24 |-> vol, liquidityUsd |-> liq, priceUsd |-> price,
     priceChangeH24 |-> change]

\* {} : what `dexData.pairs?.[0] || {}` gives when there is no first pair.
EmptyPair ==
    Pair("", Undefined, "", "", "", Undefined, Undefined, Undefined, Undefined, Undefined)

\* An HTTP exchange: net = FALSE when fetch rejects; ok is response.ok; json is
\* "invalid" when response.json() rejects, "null" when the body is the JSON
\* value null, "object" otherwise; pairs is the body's pairs array (absent and
\* empty both give no first pair).
Http(net, ok, json, pairs) == [net |-> net, ok |-> ok, json |-> json, pairs |-> pairs]

\* fetch rejects, response.json() rejects, or dexData.pairs throws a TypeError.
EnrichThrows(resp) == ~resp.net \/ resp.json # "object"

\* The draws of one enrichment: Math.floor(Math.random() * 15), the holders
\* value, the base mentions and the chart noise.
Rnd(score, holders, mentions, noise) ==
    [score |-> score, holders |-> holders, mentions |-> mentions, noise |-> noise]

\* dexData.pairs?.[0] || {}
FirstPair(resp) == IF Len(resp.pairs) > 0 THEN resp.pairs[1] ELSE EmptyPair

\* The token as the assignments of updateTokenData leave it, up to (not
\* including) hypeScore, xMentions and chartData.
WithMarketData(token, pair, rnd, variant) ==
    [name |-> IF pair.baseName # "" THEN pair.baseName ELSE token.name,
     symbol |-> IF variant = "index" THEN pair.baseSymbol ELSE token.symbol,
     address |-> token.address,
     age |-> token.age,
     marketCap |-> ParseFloatOr0(pair.fdv),
     volume |-> ParseFloatOr0(pair.volumeH24),
     liquidity |-> IF variant = "index" THEN ParseFloatOr0(pair.liquidityUsd)
                   ELSE token.liquidity,
     price |-> IF variant = "index" THEN ParseFloatOr0(pair.priceUsd) ELSE token.price,
     priceChange |-> IF variant = "index" THEN ParseFloatOr0(pair.priceChangeH24)
                     ELSE token.priceChange,
     holders |-> IF variant = "index" THEN Num(rnd.holders) ELSE token.holders,
     hypeScore |-> token.hypeScore,
     xMentions |-> token.xMentions,
     chartData |-> token.chartData,
     sponsored |-> token.sponsored]

\* updateTokenData up to its redis.hset: the token as mutated, and whether the
\* hset is reached.  response.ok is never read.  variant "index" is
\* src/index.js:203-227, variant "helius" is src/unnamed/part_000:70-89.
updateTokenData(token, resp, rnd, variant) ==
    IF EnrichThrows(resp) THEN [token |-> token, persist |-> FALSE]
    ELSE [token |->
            [WithMarketData(token, FirstPair(resp), rnd, variant) EXCEPT
               !.hypeScore =
                   IF variant = "index"
                   THEN calculateHypeScore(
                            WithMarketData(token, FirstPair(resp), rnd, variant), rnd.score)
                   ELSE calculateHypeScoreHelius(
                            WithMarketData(token, FirstPair(resp), rnd, variant), rnd.score),
               !.xMentions =
                   generateXMentions(
                       WithMarketData(token, FirstPair(resp), rnd, variant), rnd.mentions),
               !.chartData =
                   IF variant = "index"
                   THEN generateChartData(
                            WithMarketData(token, FirstPair(resp), rnd, variant), rnd.noise)
                   ELSE token.chartData],
          persist |-> TRUE]

(***************************************************************************)
(* Cache (Redis): hashes allTokens:<address>                               *)
(***************************************************************************)
\* A hash with no field.
NoRecord == BareToken("undefined", "undefined", <<>>, FALSE)

\* Whether the list holds the record.
Holds(list, token) == \E i \in DOMAIN list : list[i] = token

\* A mutant of redis.set: the records the key held and the value lacks are kept.
RedisSetKeeping(old, value) == value \o SelectSeq(old, LAMBDA t : ~Holds(value, t))

\* redis.set(key, value) on a key that holds old: the value replaces it.
RedisSet(old, value) == value

\* redis.hset(key, token) on the hash old: the properties the token has are
\* written, the other fields of the hash stay.
HashSet(old, token) ==
    [name |-> token.name,
     symbol |-> IF token.symbol # "undefined" THEN token.symbol ELSE old.symbol,
     address |-> token.address,
     age |-> token.age,
     marketCap |-> token.marketCap,
     volume |-> token.volume,
     liquidity |-> IF token.liquidity # Undefined THEN token.liquidity ELSE old.liquidity,
     price |-> IF token.price # Undefined THEN token.price ELSE old.price,
     priceChange |-> IF token.priceChange # Undefined THEN token.priceChange
                     ELSE old.priceChange,
     holders |-> IF token.holders # Undefined THEN token.holders ELSE old.holders,
     hypeScore |-> token.hypeScore,
     xMentions |-> token.xMentions,
     chartData |-> IF token.chartData # <<>> THEN token.chartData ELSE old.chartData,
     sponsored |-> token.sponsored \/ old.sponsored]

\* redis.hexists(key, "address")
HashHasAddress(rec) == rec.address # "undefined"

(***************************************************************************)
(* Clock and inputs                                                        *)
(***************************************************************************)
\* Date.now(), in milliseconds; the model's runs all read this one instant.
DateNow == 90000000
HourMs == 3600000
\* 12 * 3600 * 1000
FreshnessWindowMs == 12 * HourMs

\* new Date(v).getTime() for a JSON value v: NaN for a missing or unparseable
\* timestamp.
GetTime(v) == IF v.t = "num" THEN Num(v.n) ELSE NaN

\* a - b on JS numbers.
JsMinus(a, b) == IF IsNum(a) /\ IsNum(b) THEN Num(a.n - b.n) ELSE NaN

Addr == {"a1", "a2"}

\* Bounds of the model.
\* Operations (discovery runs, frames, listing requests) started in a behaviour.
MaxOps == 2
\* Discovery runs started in a behaviour.
MaxRuns == 1
\* Descriptors that a primary response has fresh.
MaxBatch == 2
\* Pairs of the longest secondary response that pass every filter.
MaxPairs == 6
WsSlots == {1, 2}
ListSlots == {1, 2}

HoursAgo(h) == Num(DateNow - h * HourMs)

\* A descriptor of the primary source (Solscan name/address/created_at,
\* Helius name/mint/createdAt).
Entry(name, address, created) == [name |-> name, address |-> address, created |-> created]

\* Descriptors the primary source can return; a response is a prefix of it.
PrimaryPool ==
    << Entry("Stale", "a1", HoursAgo(13)),
       Entry("Edge", "a2", Num(DateNow - FreshnessWindowMs)),
       Entry("Bad", "a1", Garbage),
       Entry("Missing", "a2", Undefined),
       Entry("Early", "a1", Num(DateNow + HourMs)),
       Entry("", "a2", Num(DateNow - FreshnessWindowMs + 1)),
       Entry("Alpha", "a1", HoursAgo(2)),
       Entry("Beta", "a2", HoursAgo(5)) >>

BigPair ==
    Pair("solana", HoursAgo(1), "Pumped", "PMP", "a1",
         Num(600000), Num(25000), Num(1000), Num(2), Num(60))

\* Pairs of the secondary source that pass every filter.
FreshPairs ==
    << BigPair,
       Pair("solana", HoursAgo(5), "Gamma", "GMA", "a2",
            Num(100000), Num(5001), Undefined, Num(1), Num(-20)),
       Pair("solana", HoursAgo(7), "", "SYM", "a1",
            Garbage, Undefined, Undefined, Undefined, Undefined),
       Pair("solana", HoursAgo(2), "Delta", "", "a2",
            Num(500001), Num(0), Undefined, Undefined, Num(11)),
       Pair("solana", HoursAgo(11), "Eps", "EPS", "a1",
            Undefined, Num(20001), Undefined, Undefined, Undefined),
       Pair("solana", HoursAgo(3), "Zeta", "ZTA", "a2",
            Num(100001), Undefined, Undefined, Undefined, Undefined),
       Pair("solana", HoursAgo(0), "Eta", "ETA", "a1",
            Undefined, Undefined, Undefined, Undefined, Undefined) >>

\* Pairs of the secondary source of which some filter rejects most.
MixedPairs ==
    << Pair("ethereum", HoursAgo(1), "Eth", "ETH", "a1",
            Num(600000), Num(25000), Undefined, Undefined, Undefined),
       Pair("solana", Num(DateNow - FreshnessWindowMs), "Edge", "EDG", "a2",
            Undefined, Undefined, Undefined, Undefined, Undefined),
       Pair("solana", HoursAgo(2), "", "", "a1",
            Undefined, Undefined, Undefined, Undefined, Undefined),
       Pair("solana", HoursAgo(2), "NoAddr", "NOA", "",
            Undefined, Undefined, Undefined, Undefined, Undefined),
       Pair("solana", Garbage, "BadTs", "BTS", "a2",
            Undefined, Undefined, Undefined, Undefined, Undefined),
       Pair("solana", Undefined, "NoTs", "NTS", "a1",
            Undefined, Undefined, Undefined, Undefined, Undefined),
       Pair("solana", HoursAgo(13), "Stale", "STL", "a2",
            Undefined, Undefined, Undefined, Undefined, Undefined),
       Pair("solana", Num(DateNow - FreshnessWindowMs + 1), "Late", "LTE", "a2",
            Undefined, Undefined, Undefined, Undefined, Undefined) >>

\* fetch rejects (network error).
NetworkError == Http(FALSE, FALSE, "invalid", <<>>)
\* A non-success status whose body is not JSON (response.json() rejects).
ErrorPage == Http(TRUE, FALSE, "invalid", <<>>)
\* A non-success status whose body is a JSON object without pairs.
ErrorJson == Http(TRUE, FALSE, "object", <<>>)
\* A success status whose body is the JSON value null.
NullBody == Http(TRUE, TRUE, "null", <<>>)
\* A success status whose body is not JSON.
BrokenBody == Http(TRUE, TRUE, "invalid", <<>>)

\* Lookups that failed: by network error, by status, by payload.
FailedExchanges == {NetworkError, ErrorPage, ErrorJson, NullBody, BrokenBody}

\* The number of descriptors of data whose timestamp lies within the window.
FreshCount(data) ==
    Cardinality({i \in 1..Len(data) :
        /\ data[i].created.t = "num"
        /\ DateNow - data[i].created.n < FreshnessWindowMs})

\* Exchanges with the primary discovery source (pairs holds the descriptors).
PrimaryExchanges ==
    {NetworkError, ErrorJson}
        \cup {Http(TRUE, TRUE, "object", SubSeq(PrimaryPool, 1, n)) :
                n \in {m \in 0..Len(PrimaryPool) :
                          FreshCount(SubSeq(PrimaryPool, 1, m)) <= MaxBatch}}

\* Exchanges with the secondary discovery source.
SecondaryExchanges ==
    {NetworkError, ErrorJson}
        \cup {Http(TRUE, TRUE, "object", <<>>),
              Http(TRUE, TRUE, "object", SubSeq(FreshPairs, 1, Min(MaxPairs, Len(FreshPairs)))),
              Http(TRUE, TRUE, "object", MixedPairs \o SubSeq(FreshPairs, 1, 2))}

\* Exchanges with the market-data provider.
MarketExchanges ==
    FailedExchanges
        \cup {Http(TRUE, TRUE, "object", <<>>), Http(TRUE, TRUE, "object", <<BigPair>>)}

\* Math.floor(Math.random() * 15)
ScoreDraws == 0..14
\* The draws the system runs use.
SystemScoreDraws == {0, 14}

\* One updateTokenData call of a system run: the provider's answer, the draws,
\* and whether redis.hset succeeds.
EnrichCase(resp, rnd, cacheOk) == [resp |-> resp, rnd |-> rnd, cacheOk |-> cacheOk]
EnrichCases ==
    { EnrichCase(NetworkError, Rnd(0, 50, 50, 0), TRUE),
      EnrichCase(ErrorJson, Rnd(0, 50, 50, 0), TRUE),
      EnrichCase(Http(TRUE, TRUE, "object", <<>>), Rnd(14, 50, 50, 0), TRUE),
      EnrichCase(Http(TRUE, TRUE, "object", <<>>), Rnd(14, 50, 50, 0), FALSE),
      EnrichCase(Http(TRUE, TRUE, "object", <<BigPair>>), Rnd(0, 349, 249, 1), TRUE) }

\* The score draws of one fallback run: every token draws 0, every token
\* draws 14, or they alternate.
DrawPatterns == {"low", "high", "mixed"}

(***************************************************************************)
(* State                                                                   *)
(***************************************************************************)
VARIABLES
    newTokens,        \* Redis key "newTokens"
    featuredTokens,   \* Redis key "featuredTokens" (<<>> while the key is absent)
    featuredExists,   \* whether the key "featuredTokens" exists
    allTokens,        \* Redis hashes allTokens:<address>
    newTokenEvents,   \* per address, the new-token-event publications
    featuredEvents,   \* per address, the new-featured-event publications
    loader,           \* the discovery run in flight (loadTokens / loadInitialTokens)
    ws,               \* live-listener message handlers in flight
    lst,              \* POST /api/list-token requests in flight
    ops,              \* operations started so far
    runs,             \* discovery runs started so far
    lastWrite,        \* the latest redis.set("newTokens", ...): who, from what
    probe,            \* a single call of a scoring/enrichment function
    srch,             \* the GET /api/search request in flight
    link              \* the listener's WebSocket connections and reconnect timers

vars == <<newTokens, featuredTokens, featuredExists, allTokens, newTokenEvents,
          featuredEvents, loader, ws, lst, ops, runs, lastWrite, probe, srch, link>>

cache == <<newTokens, featuredTokens, featuredExists, allTokens>>
events == <<newTokenEvents, featuredEvents>>

IdleLoader ==
    [pc |-> "idle", variant |-> "index", caller |-> "none", data |-> <<>>,
     admitted |-> <<>>, batch |-> <<>>, pending |-> {}, pairs |-> <<>>,
     fbAdmitted |-> <<>>, local |-> <<>>, primary |-> "none", secondary |-> "none",
     before |-> <<>>, disturbed |-> FALSE, writes |-> 0, status |-> 0]

IdleWs == [pc |-> "idle", token |-> NoRecord, local |-> <<>>, outcome |-> "none"]

IdleList ==
    [pc |-> "idle", variant |-> "index", token |-> NoRecord, local |-> <<>>, status |-> 0]

NoWrite == [by |-> "none", pairs |-> <<>>, candidates |-> <<>>]

IdleProbe == [phase |-> "idle", variant |-> "index", token |-> NoRecord, draw |-> 0,
              resp |-> Http(FALSE, FALSE, "invalid", <<>>), score |-> 0,
              after |-> NoRecord, persist |-> FALSE, twin |-> 0, twinAge |-> <<>>]

\* No provider lookup was made by the search.
NoLookup ==
    [meta |-> "none", resp |-> Http(FALSE, FALSE, "invalid", <<>>), rnd |-> Rnd(0, 0, 0, 0),
     cacheOk |-> TRUE]

IdleSearch == [pc |-> "idle", variant |-> "index", q |-> "", status |-> 0, lookup |-> NoLookup]

(***************************************************************************)
(* Discovery Pipeline                                                      *)
(***************************************************************************)
IndexSeq(n) == [i \in 1..n |-> i]

\* A mutant of the freshness test: <= in place of <.
IsFreshInclusive(created) ==
    LET age == JsMinus(Num(DateNow), GetTime(created))
    IN  IsNum(age) /\ age.n <= FreshnessWindowMs

\* (Date.now() - new Date(t.created_at).getTime()) < 12 * 3600 * 1000
IsFresh(created) == JsLt(JsMinus(Num(DateNow), GetTime(created)), FreshnessWindowMs)

\* The indices of tokens.data that the filter of loadTokens keeps.
PrimaryAdmitted(data) == SelectSeq(IndexSeq(Len(data)), LAMBDA i : IsFresh(data[i].created))

\* The object literal that loadTokens maps a descriptor to.
PrimaryToken(t) ==
    BareToken(IF t.name # "" THEN t.name ELSE "Unknown", t.address,
              FormatAge(JsMinus(Num(DateNow), GetTime(t.created))), FALSE)

\* pair.chainId === "solana" && pair.pairCreatedAt > twelveHoursAgo
PairPasses(pair) ==
    pair.chainId = "solana" /\ JsGt(pair.pairCreatedAt, DateNow - FreshnessWindowMs)

\* The object literal that the fallback maps a pair to (before scoring).
FallbackToken(pair, holders) ==
    [name |-> IF pair.baseName # "" THEN pair.baseName
              ELSE IF pair.baseSymbol # "" THEN pair.baseSymbol ELSE "Unknown",
     symbol |-> pair.baseSymbol,
     address |-> pair.baseAddress,
     age |-> FormatAge(JsMinus(Num(DateNow), pair.pairCreatedAt)),
     marketCap |-> ParseFloatOr0(pair.fdv),
     volume |-> ParseFloatOr0(pair.volumeH24),
     liquidity |-> ParseFloatOr0(pair.liquidityUsd),
     price |-> ParseFloatOr0(pair.priceUsd),
     priceChange |-> ParseFloatOr0(pair.priceChangeH24),
     holders |-> Num(holders),
     hypeScore |-> 0, xMentions |-> 0, chartData |-> <<>>, sponsored |-> FALSE]

\* A mutant of the second filter of the fallback: it keeps every token.
FallbackKeepsAll(token) == TRUE

\* token.name !== "Unknown" && token.address
FallbackKeeps(token) == token.name # "Unknown" /\ token.address # ""

\* The indices of data.pairs that both filters of the fallback keep.
FallbackAdmitted(pairs) ==
    SelectSeq(IndexSeq(Len(pairs)),
              LAMBDA i : PairPasses(pairs[i]) /\ FallbackKeeps(FallbackToken(pairs[i], 50)))

\* The forEach of the fallback: score, mentions and chart of one token.
FallbackScored(token, rnd) ==
    [token EXCEPT !.hypeScore = calculateHypeScore(token, rnd.score),
                  !.xMentions = generateXMentions(token, rnd.mentions),
                  !.chartData = generateChartData(token, rnd.noise)]

LoaderFree == loader.pc \in {"idle", "done"}

\* The locals of the try block (and of the fallback's try block) go out of
\* scope when the block is left.
OutOfScope(l) ==
    [l EXCEPT !.data = <<>>, !.admitted = <<>>, !.batch = <<>>, !.pending = {},
              !.pairs = <<>>, !.fbAdmitted = <<>>, !.local = <<>>]

\* A mutant of Returned: the run rethrows, and the read handler answers 500.
ReturnedRaising(l) ==
    [OutOfScope(l) EXCEPT !.pc = "done", !.status = IF l.caller = "get" THEN 500 ELSE 0]

\* Where a run goes when loadTokens returns: back to its caller.
Returned(l) == [OutOfScope(l) EXCEPT !.pc = IF l.caller = "get" THEN "reread" ELSE "done"]

\* Where a run goes when the outer try block throws: the catch block, which
\* in index.js starts the fallback and in part_000 only logs.
Caught(l) ==
    IF l.variant = "index" THEN [OutOfScope(l) EXCEPT !.pc = "fallback"] ELSE Returned(l)

NewRun(variant, caller) ==
    [IdleLoader EXCEPT !.pc = "fetch", !.variant = variant, !.caller = caller,
                       !.before = newTokens]

\* setInterval(loadTokens, ...) fires, or app.listen's callback runs
\* loadTokens() / loadInitialTokens().
LoadTokensCalled(variant, caller) ==
    /\ LoaderFree
    /\ ops < MaxOps
    /\ runs < MaxRuns
    /\ loader' = NewRun(variant, caller)
    /\ ops' = ops + 1
    /\ runs' = runs + 1
    /\ UNCHANGED <<cache, events, ws, lst, lastWrite, probe, srch, link>>

\* GET /api/new-tokens (index.js): the first redis.get resolves or rejects.
NewTokensRead(refresh, cacheOk) ==
    /\ LoaderFree
    /\ ops < MaxOps
    /\ runs < MaxRuns
    /\ ops' = ops + 1
    /\ runs' = runs + 1
    /\ loader' =
         IF ~cacheOk THEN [IdleLoader EXCEPT !.pc = "done", !.caller = "get", !.status = 500,
                                            !.before = newTokens]
         ELSE IF Len(newTokens) = 0 \/ refresh THEN NewRun("index", "get")
         ELSE [IdleLoader EXCEPT !.pc = "done", !.caller = "get", !.status = 200,
                                 !.before = newTokens]
    /\ UNCHANGED <<cache, events, ws, lst, lastWrite, probe, srch, link>>

\* The primary fetch settles: filter and map, or throw into the catch block.
PrimaryFetched(resp) ==
    /\ loader.pc = "fetch"
    /\ IF ~resp.net \/ ~resp.ok \/ resp.json # "object"
       THEN loader' = Caught([loader EXCEPT !.primary = "failed"])
       ELSE LET adm == PrimaryAdmitted(resp.pairs)
                batch == [k \in 1..Len(adm) |-> PrimaryToken(resp.pairs[adm[k]])]
            IN  loader' = [loader EXCEPT !.pc = "enrich", !.primary = "ok",
                                         !.data = resp.pairs, !.admitted = adm,
                                         !.batch = batch, !.pending = 1..Len(adm)]
    /\ UNCHANGED <<cache, events, ws, lst, ops, runs, lastWrite, probe, srch, link>>

\* A mutant of the await: the run goes on as soon as it likes.
PromiseRace(pending) == TRUE

\* await Promise.all(newTokens.map(updateTokenData)): every call has settled
\* (updateTokenData catches its errors, so none rejects).
PromiseAll(pending) == pending = {}

\* One updateTokenData of Promise.all(newTokens.map(updateTokenData)) settles.
EnrichOne(i, case) ==
    /\ loader.pc = "enrich"
    /\ i \in loader.pending
    /\ \E r \in {updateTokenData(loader.batch[i], case.resp, case.rnd, loader.variant)} :
           /\ loader' = [loader EXCEPT !.batch[i] = r.token, !.pending = @ \ {i}]
           /\ allTokens' = IF r.persist /\ case.cacheOk
                           THEN [allTokens EXCEPT ![r.token.address] = HashSet(@, r.token)]
                           ELSE allTokens
    /\ UNCHANGED <<newTokens, featuredTokens, featuredExists, events, ws, lst, ops, runs,
                   lastWrite, probe, srch, link>>

\* await redis.set("newTokens", rankTokens(newTokens).slice(0, 5))
PersistNewTokens(cacheOk) ==
    /\ loader.pc = "enrich"
    /\ PromiseAll(loader.pending)
    /\ IF cacheOk
       THEN /\ newTokens' = RedisSet(newTokens, TopOf(rankTokens(loader.batch)))
            /\ lastWrite' = [by |-> "primary", pairs |-> <<>>, candidates |-> loader.batch]
            /\ loader' = [OutOfScope(loader) EXCEPT !.pc = "exists", !.writes = @ + 1]
       ELSE /\ loader' = Caught(loader)
            /\ UNCHANGED <<newTokens, lastWrite>>
    /\ UNCHANGED <<featuredTokens, featuredExists, allTokens, events, ws, lst, ops, runs, probe, srch, link>>

\* const featuredExists = await redis.exists("featuredTokens")
FeaturedChecked(cacheOk) ==
    /\ loader.pc = "exists"
    /\ loader' = IF ~cacheOk THEN Caught(loader)
                 ELSE IF featuredExists THEN Returned(loader)
                 ELSE [loader EXCEPT !.pc = "setFeatured"]
    /\ UNCHANGED <<cache, events, ws, lst, ops, runs, lastWrite, probe, srch, link>>

\* if (!featuredExists) await redis.set("featuredTokens", [])
FeaturedInitialised(cacheOk) ==
    /\ loader.pc = "setFeatured"
    /\ IF cacheOk
       THEN /\ featuredTokens' = <<>>
            /\ featuredExists' = TRUE
            /\ loader' = Returned(loader)
       ELSE /\ loader' = Caught(loader)
            /\ UNCHANGED <<featuredTokens, featuredExists>>
    /\ UNCHANGED <<newTokens, allTokens, events, ws, lst, ops, runs, lastWrite, probe, srch, link>>

\* The fallback fetch settles: filter, map, filter and score, or give up.
FallbackFetched(resp, pattern) ==
    /\ loader.pc = "fallback"
    /\ IF ~resp.net \/ ~resp.ok \/ resp.json # "object"
       THEN loader' = Returned([loader EXCEPT !.secondary = "failed"])
       ELSE LET adm == FallbackAdmitted(resp.pairs)
                draws == IF pattern = "low" THEN [k \in 1..Len(adm) |-> 0]
                         ELSE IF pattern = "high" THEN [k \in 1..Len(adm) |-> 14]
                         ELSE [k \in 1..Len(adm) |-> IF k % 2 = 0 THEN 14 ELSE 0]
            IN  /\ loader' = [loader EXCEPT
                       !.pc = "fbset", !.secondary = "ok", !.pairs = resp.pairs,
                       !.fbAdmitted = adm,
                       !.local = [k \in 1..Len(adm) |->
                                    FallbackScored(FallbackToken(resp.pairs[adm[k]], 50),
                                                   Rnd(draws[k], 50, 50, 0))]]
    /\ UNCHANGED <<cache, events, ws, lst, ops, runs, lastWrite, probe, srch, link>>

\* await redis.set("newTokens", rankTokens(newTokens).slice(0, 5)) of the fallback
FallbackPersisted(cacheOk) ==
    /\ loader.pc = "fbset"
    /\ IF cacheOk
       THEN /\ newTokens' = TopOf(rankTokens(loader.local))
            /\ lastWrite' = [by |-> "fallback", pairs |-> loader.pairs,
                             candidates |-> loader.local]
            /\ loader' = Returned([loader EXCEPT !.writes = @ + 1])
       ELSE /\ loader' = Returned(loader)
            /\ UNCHANGED <<newTokens, lastWrite>>
    /\ UNCHANGED <<featuredTokens, featuredExists, allTokens, events, ws, lst, ops, runs, probe, srch, link>>

\* GET /api/new-tokens after loadTokens(): the second redis.get and the answer.
NewTokensAnswered(cacheOk) ==
    /\ loader.pc = "reread"
    /\ loader' = [loader EXCEPT !.pc = "done", !.status = IF cacheOk THEN 200 ELSE 500]
    /\ UNCHANGED <<cache, events, ws, lst, ops, runs, lastWrite, probe, srch, link>>

(***************************************************************************)
(* Live Listener Connection (part_000, connectToHelius)                    *)
(***************************************************************************)
ReconnectDelayMs == 5000

\* Sockets and pending reconnect timers together, at most.
MaxLinks == 3

\* connecting, open: the sockets in readyState CONNECTING and OPEN; failing:
\* the sockets whose "error" was emitted and whose "close" is still to come;
\* timers: the delays of the pending setTimeout(connectToHelius, ...); last:
\* the latest connection event; retried: whether a reconnect timer has fired.
Link(connecting, open, failing, timers, last, retried) ==
    [connecting |-> connecting, open |-> open, failing |-> failing, timers |-> timers,
     last |-> last, retried |-> retried]

\* After app.listen's callback called connectToHelius().
Started == Link(1, 0, 0, <<>>, "connect", FALSE)

\* After the first socket opened and the subscription was sent.
Subscribed == Link(0, 1, 0, <<>>, "open", FALSE)

Links == link.connecting + link.open + link.failing + Len(link.timers)

\* A mutant of the handlers' setTimeout: nothing is scheduled.
ScheduleNothing(timers) == timers

\* setTimeout(connectToHelius, 5000)
ScheduleReconnect(timers) == Append(timers, ReconnectDelayMs)

\* A reconnect timer fires: connectToHelius() creates a new socket.
connectToHelius ==
    /\ link.timers # <<>>
    /\ link' = [link EXCEPT !.timers = Tail(@), !.connecting = @ + 1,
                            !.last = "connect", !.retried = TRUE]
    /\ UNCHANGED <<cache, events, loader, ws, lst, ops, runs, lastWrite, probe, srch>>

\* ws.on("open"): the subscription is sent.
WsOnOpen ==
    /\ link.connecting > 0
    /\ link' = [link EXCEPT !.connecting = @ - 1, !.open = @ + 1, !.last = "open"]
    /\ UNCHANGED <<cache, events, loader, ws, lst, ops, runs, lastWrite, probe, srch>>

\* ws.on("error"): a socket that was connecting or open fails; the library
\* emits "close" for the same socket afterwards.
WsOnError(from) ==
    /\ link[from] > 0
    /\ Links < MaxLinks
    /\ link' = [link EXCEPT ![from] = @ - 1, !.failing = link.failing + 1,
                            !.timers = ScheduleReconnect(@), !.last = "error"]
    /\ UNCHANGED <<cache, events, loader, ws, lst, ops, runs, lastWrite, probe, srch>>

\* ws.on("close"): an open socket is closed by the peer, or a failed one closes.
WsOnClose(from) ==
    /\ link[from] > 0
    /\ link' = [link EXCEPT ![from] = @ - 1, !.timers = ScheduleReconnect(@),
                            !.last = "close"]
    /\ UNCHANGED <<cache, events, loader, ws, lst, ops, runs, lastWrite, probe, srch>>

(***************************************************************************)
(* Live Ingestion Listener (part_000, ws.on("message"))                    *)
(***************************************************************************)
\* A frame of the stream: parses tells whether JSON.parse succeeds, hasData
\* whether event.data is an object.
Frame(parses, type, hasData, name, mint, timestamp) ==
    [parses |-> parses, type |-> type, hasData |-> hasData, name |-> name,
     mint |-> mint, timestamp |-> timestamp]

Frames ==
    { Frame(FALSE, "", FALSE, "", "", Undefined),
      Frame(TRUE, "ACCOUNT_UPDATE", TRUE, "Other", "a1", HoursAgo(1)),
      Frame(TRUE, "TOKEN_MINT", FALSE, "", "", Undefined),
      Frame(TRUE, "TOKEN_MINT", TRUE, "Old", "a1", Num(DateNow - FreshnessWindowMs)),
      Frame(TRUE, "TOKEN_MINT", TRUE, "Mint", "a1", HoursAgo(1)),
      Frame(TRUE, "TOKEN_MINT", TRUE, "", "a2", Garbage) }

WsFree(s) == ws[s].pc \in {"idle", "done"}

WsEnded(outcome, token) ==
    [pc |-> "done", token |-> token, local |-> <<>>, outcome |-> outcome]

\* A mutant of the handler's catch block: it also schedules a reconnect.
MessageCaughtReconnects(l) == [l EXCEPT !.timers = ScheduleReconnect(@)]

\* catch (error) { console.error(...) }: the connection is left as it is.
MessageCaught(l) == l

\* The handler up to its first await (redis.hexists).
WsMessage(s, frame) ==
    /\ WsFree(s)
    /\ link.open > 0
    /\ ops < MaxOps
    /\ ops' = ops + 1
    /\ LET ageMs == JsMinus(Num(DateNow), GetTime(frame.timestamp))
           token == BareToken(IF frame.name # "" THEN frame.name ELSE "Unknown",
                              frame.mint, FormatAge(ageMs), FALSE)
       IN  ws' = [ws EXCEPT ![s] =
                IF ~frame.parses THEN WsEnded("error", NoRecord)
                ELSE IF frame.type # "TOKEN_MINT" THEN WsEnded("ignored", NoRecord)
                ELSE IF ~frame.hasData THEN WsEnded("error", NoRecord)
                ELSE IF IsNum(ageMs) /\ ageMs.n >= FreshnessWindowMs
                     THEN WsEnded("stale", NoRecord)
                ELSE [pc |-> "hexists", token |-> token, local |-> <<>>,
                      outcome |-> "none"]]
    /\ link' = IF ~frame.parses \/ (frame.type = "TOKEN_MINT" /\ ~frame.hasData)
               THEN MessageCaught(link) ELSE link
    /\ UNCHANGED <<cache, events, loader, lst, runs, lastWrite, probe, srch>>

\* A mutant of the dedup test: the result of hexists is ignored.
IsDuplicateNever(address) == FALSE

\* const exists = await redis.hexists(`allTokens:${token.address}`, "address")
IsDuplicate(address) == HashHasAddress(allTokens[address])

\* redis.hexists settles; if (exists) return.
WsChecked(s, cacheOk) ==
    /\ ws[s].pc = "hexists"
    /\ ws' = [ws EXCEPT ![s] =
                IF ~cacheOk THEN WsEnded("error", @.token)
                ELSE IF IsDuplicate(@.token.address) THEN WsEnded("duplicate", @.token)
                ELSE [@ EXCEPT !.pc = "enrich"]]
    /\ UNCHANGED <<cache, events, loader, lst, ops, runs, lastWrite, probe, srch, link>>

\* await updateTokenData(token)
WsEnriched(s, case) ==
    /\ ws[s].pc = "enrich"
    /\ \E r \in {updateTokenData(ws[s].token, case.resp, case.rnd, "helius")} :
           /\ ws' = [ws EXCEPT ![s] = [@ EXCEPT !.pc = "get", !.token = r.token]]
           /\ allTokens' = IF r.persist /\ case.cacheOk
                           THEN [allTokens EXCEPT ![r.token.address] = HashSet(@, r.token)]
                           ELSE allTokens
    /\ UNCHANGED <<newTokens, featuredTokens, featuredExists, events, loader, lst, ops, runs,
                   lastWrite, probe, srch, link>>

\* let newTokens = await redis.get("newTokens") || []; newTokens.unshift(token)
WsListRead(s, cacheOk) ==
    /\ ws[s].pc = "get"
    /\ ws' = [ws EXCEPT ![s] =
                IF ~cacheOk THEN WsEnded("error", @.token)
                ELSE [@ EXCEPT !.pc = "set", !.local = <<ws[s].token>> \o newTokens]]
    /\ UNCHANGED <<cache, events, loader, lst, ops, runs, lastWrite, probe, srch, link>>

\* newTokens = rankTokens(newTokens).slice(0, 5); await redis.set(...);
\* pusher.trigger("new-tokens-channel", "new-token-event", token)
WsPersisted(s, cacheOk) ==
    /\ ws[s].pc = "set"
    /\ IF cacheOk
       THEN /\ newTokens' = RedisSet(newTokens, TopOf(rankTokens(ws[s].local)))
            /\ lastWrite' = [by |-> "listener", pairs |-> <<>>, candidates |-> ws[s].local]
            /\ newTokenEvents' = [newTokenEvents EXCEPT ![ws[s].token.address] = @ + 1]
            /\ ws' = [ws EXCEPT ![s] = WsEnded("published", @.token)]
            /\ loader' = [loader EXCEPT !.disturbed = TRUE]
       ELSE /\ ws' = [ws EXCEPT ![s] = WsEnded("error", @.token)]
            /\ UNCHANGED <<newTokens, lastWrite, newTokenEvents, loader>>
    /\ UNCHANGED <<featuredTokens, featuredExists, allTokens, featuredEvents, lst, ops, runs,
                   probe, srch, link>>

(***************************************************************************)
(* POST /api/list-token                                                    *)
(***************************************************************************)
ListFree(s) == lst[s].pc \in {"idle", "done"}

ListEnded(l, status) == [l EXCEPT !.pc = "done", !.status = status, !.local = <<>>]

\* A mutant of the validation: only the name is required.
IsIncompleteNameOnly(name, address) == name = ""

\* !name || !address
IsIncomplete(name, address) == name = "" \/ address = ""

\* The request body is read: 400, or the token literal and updateTokenData.
ListRequested(s, variant, name, address) ==
    /\ ListFree(s)
    /\ ops < MaxOps
    /\ ops' = ops + 1
    /\ LET token == BareToken(name, address, NotAvailable, TRUE)
           req == [IdleList EXCEPT !.variant = variant, !.token = token]
       IN  lst' = [lst EXCEPT ![s] =
                IF IsIncomplete(name, address) THEN ListEnded(req, 400)
                ELSE [req EXCEPT !.pc = "enrich"]]
    /\ UNCHANGED <<cache, events, loader, ws, runs, lastWrite, probe, srch, link>>

\* await updateTokenData(token)
ListEnriched(s, case) ==
    /\ lst[s].pc = "enrich"
    /\ \E r \in {updateTokenData(lst[s].token, case.resp, case.rnd, lst[s].variant)} :
           /\ lst' = [lst EXCEPT ![s] = [@ EXCEPT !.pc = "get", !.token = r.token]]
           /\ allTokens' = IF r.persist /\ case.cacheOk
                           THEN [allTokens EXCEPT ![r.token.address] = HashSet(@, r.token)]
                           ELSE allTokens
    /\ UNCHANGED <<newTokens, featuredTokens, featuredExists, events, loader, ws, ops, runs,
                   lastWrite, probe, srch, link>>

\* let featuredTokens = await redis.get("featuredTokens") || [];
\* featuredTokens.unshift(token); featuredTokens = featuredTokens.slice(0, 5)
ListRead(s, cacheOk) ==
    /\ lst[s].pc = "get"
    /\ lst' = [lst EXCEPT ![s] =
                IF ~cacheOk THEN ListEnded(@, 500)
                ELSE [@ EXCEPT !.pc = "set", !.local = TopOf(<<lst[s].token>> \o featuredTokens)]]
    /\ UNCHANGED <<cache, events, loader, ws, ops, runs, lastWrite, probe, srch, link>>

\* await redis.set("featuredTokens", featuredTokens); pusher.trigger(...);
\* res.json({ success: true })
ListPersisted(s, cacheOk) ==
    /\ lst[s].pc = "set"
    /\ IF cacheOk
       THEN /\ featuredTokens' = RedisSet(featuredTokens, lst[s].local)
            /\ featuredExists' = TRUE
            /\ featuredEvents' = [featuredEvents EXCEPT ![lst[s].token.address] = @ + 1]
            /\ lst' = [lst EXCEPT ![s] = ListEnded(@, 200)]
       ELSE /\ lst' = [lst EXCEPT ![s] = ListEnded(@, 500)]
            /\ UNCHANGED <<featuredTokens, featuredExists, featuredEvents>>
    /\ UNCHANGED <<newTokens, allTokens, newTokenEvents, loader, ws, ops, runs, lastWrite, probe, srch, link>>

(***************************************************************************)
(* GET /api/search                                                         *)
(***************************************************************************)
\* hypeScore: 70 and xMentions: 500 of the records that search builds.
SearchDefaultScore == 70
SearchDefaultMentions == 500

\* The token of the Solscan branch of index.js; pair is dexData.pairs?.[0].
SearchMetaToken(q, resp, rnd) ==
    [name |-> "Found", symbol |-> "FND", address |-> q, age |-> NotAvailable,
     marketCap |-> IF Len(resp.pairs) > 0 THEN ParseFloatOr0(resp.pairs[1].fdv) ELSE Num(0),
     volume |-> IF Len(resp.pairs) > 0 THEN ParseFloatOr0(resp.pairs[1].volumeH24)
                ELSE Num(0),
     liquidity |-> Undefined,
     price |-> IF Len(resp.pairs) > 0 THEN ParseFloatOr0(resp.pairs[1].priceUsd) ELSE Num(0),
     priceChange |-> IF Len(resp.pairs) > 0 THEN ParseFloatOr0(resp.pairs[1].priceChangeH24)
                     ELSE Num(0),
     holders |-> Undefined,
     hypeScore |-> SearchDefaultScore,
     xMentions |-> SearchDefaultMentions,
     chartData |-> generateChartData(
                       [priceChange |-> IF Len(resp.pairs) > 0
                                        THEN ParseFloatOr0(resp.pairs[1].priceChangeH24)
                                        ELSE Num(0)], rnd.noise),
     sponsored |-> FALSE]

\* The token of the DexScreener-only branch; pair is the first pair.
SearchPairToken(variant, q, pair, rnd) ==
    [name |-> IF pair.baseName # "" THEN pair.baseName ELSE "Unknown",
     symbol |-> IF variant = "index" THEN pair.baseSymbol ELSE "undefined",
     address |-> IF pair.baseAddress # "" THEN pair.baseAddress ELSE q,
     age |-> NotAvailable,
     marketCap |-> ParseFloatOr0(pair.fdv),
     volume |-> ParseFloatOr0(pair.volumeH24),
     liquidity |-> Undefined,
     price |-> IF variant = "index" THEN ParseFloatOr0(pair.priceUsd) ELSE Undefined,
     priceChange |-> IF variant = "index" THEN ParseFloatOr0(pair.priceChangeH24)
                     ELSE Undefined,
     holders |-> Undefined,
     hypeScore |-> IF variant = "index"
                   THEN calculateHypeScore(
                            [marketCap |-> ParseFloatOr0(pair.fdv),
                             volume |-> ParseFloatOr0(pair.volumeH24),
                             age |-> NotAvailable, priceChange |-> Undefined], rnd.score)
                   ELSE SearchDefaultScore,
     xMentions |-> IF variant = "index"
                   THEN generateXMentions(
                            [marketCap |-> ParseFloatOr0(pair.fdv),
                             volume |-> ParseFloatOr0(pair.volumeH24)], rnd.mentions)
                   ELSE SearchDefaultMentions,
     chartData |-> IF variant = "index"
                   THEN generateChartData(
                            [priceChange |-> ParseFloatOr0(pair.priceChangeH24)], rnd.noise)
                   ELSE <<>>,
     sponsored |-> FALSE]

\* One search past the cache lookup: how the Solscan metadata request ends
\* ("ok": success status and data.success; "failed": any other answer;
\* "throws": fetch or json() rejects), the DexScreener exchange, the draws and
\* whether redis.hset succeeds.
SearchCase(meta, resp, rnd, cacheOk) ==
    [meta |-> meta, resp |-> resp, rnd |-> rnd, cacheOk |-> cacheOk]

\* What a search stores and answers: the record (NoRecord when none is
\* built) and the status.
SearchOutcome(variant, q, case) ==
    IF variant = "index" /\ case.meta = "throws" THEN [token |-> NoRecord, status |-> 500]
    ELSE IF EnrichThrows(case.resp) THEN [token |-> NoRecord, status |-> 500]
    ELSE IF variant = "index" /\ case.meta = "ok"
         THEN [token |-> SearchMetaToken(q, case.resp, case.rnd),
               status |-> IF case.cacheOk THEN 200 ELSE 500]
    ELSE IF Len(case.resp.pairs) > 0
         THEN [token |-> SearchPairToken(variant, q, case.resp.pairs[1], case.rnd),
               status |-> IF case.cacheOk THEN 200 ELSE 500]
    ELSE [token |-> NoRecord, status |-> 200]

SearchFree == srch.pc \in {"idle", "done"}

\* The handler up to the settling of redis.hgetall(`allTokens:${q}`).
SearchRequested(variant, q, cacheOk) ==
    /\ SearchFree
    /\ ops < MaxOps
    /\ ops' = ops + 1
    /\ srch' = [IdleSearch EXCEPT
                   !.variant = variant, !.q = q,
                   !.pc = IF q # "" /\ cacheOk /\ ~HashHasAddress(allTokens[q])
                          THEN "lookup" ELSE "done",
                   !.status = IF q = "" THEN 400
                              ELSE IF ~cacheOk THEN 500
                              ELSE IF HashHasAddress(allTokens[q]) THEN 200 ELSE 0]
    /\ UNCHANGED <<cache, events, loader, ws, lst, runs, lastWrite, probe, link>>

\* The provider lookups settle; the record, if one is built, is stored with
\* redis.hset and answered.
SearchLookedUp(case) ==
    /\ srch.pc = "lookup"
    /\ \E r \in {SearchOutcome(srch.variant, srch.q, case)} :
           /\ srch' = [srch EXCEPT !.pc = "done", !.status = r.status, !.lookup = case]
           /\ allTokens' = IF r.token # NoRecord /\ case.cacheOk
                           THEN [allTokens EXCEPT ![r.token.address] = HashSet(@, r.token)]
                           ELSE allTokens
    /\ UNCHANGED <<newTokens, featuredTokens, featuredExists, events, loader, ws, lst, ops,
                   runs, lastWrite, probe, link>>

(***************************************************************************)
(* Single calls of the scoring and enrichment functions                    *)
(***************************************************************************)
\* Age strings: "N/A", and what FormatAge gives for an unparseable, a future
\* and some past timestamps.
ProbeAges ==
    {NotAvailable, FormatAge(NaN), FormatAge(Num(0 - HourMs))}
        \cup {FormatAge(Num(h * HourMs)) : h \in {0, 2, 3, 5, 6, 11}}

ProbeMarketCaps == {Num(0), Num(100000), Num(100001), Num(500001), NaN}
ProbeVolumes == {Num(0), Num(5000), Num(5001), Num(20001), NaN}
ProbePriceChanges == {Undefined, Num(-20), Num(10), Num(11), Num(51), NaN}

\* The tokens a probed call receives.
ProbeTokens ==
    {[BareToken("Probe", "a1", age, FALSE) EXCEPT
          !.marketCap = mc, !.volume = vol, !.priceChange = pc] :
        age \in ProbeAges, mc \in ProbeMarketCaps, vol \in ProbeVolumes,
        pc \in ProbePriceChanges}

\* calculateHypeScore(token) returns.
ProbeScored(variant, draw) ==
    /\ probe.phase = "input"
    /\ probe' = [probe EXCEPT
           !.phase = "scored", !.variant = variant, !.draw = draw,
           !.score = IF variant = "index" THEN calculateHypeScore(probe.token, draw)
                     ELSE calculateHypeScoreHelius(probe.token, draw)]
    /\ UNCHANGED <<cache, events, loader, ws, lst, ops, runs, lastWrite, srch, link>>

\* updateTokenData(token) returns (its redis.hset apart).
ProbeEnriched(variant, resp, rnd) ==
    /\ probe.phase = "input"
    /\ \E r \in {updateTokenData(probe.token, resp, rnd, variant)} :
           probe' = [probe EXCEPT
               !.phase = "enriched", !.variant = variant, !.draw = rnd.score,
               !.resp = resp, !.after = r.token, !.persist = r.persist]
    /\ UNCHANGED <<cache, events, loader, ws, lst, ops, runs, lastWrite, srch, link>>

\* Ages below 3 hours and ages of 6 hours or more, as FormatAge writes them.
YoungAges == {FormatAge(Num(h * HourMs)) : h \in {0, 2}} \cup {FormatAge(Num(0 - HourMs))}
OldAges == {FormatAge(Num(h * HourMs)) : h \in {6, 11}}

\* calculateHypeScore returns for the token at age young and, with the same
\* draw, for the same token at age old.
ProbeCompared(variant, draw, young, old) ==
    /\ probe.phase = "input"
    /\ probe.token.age = NotAvailable
    /\ probe' = [probe EXCEPT
           !.phase = "compared", !.variant = variant, !.draw = draw,
           !.token = [probe.token EXCEPT !.age = young],
           !.twinAge = old,
           !.score = IF variant = "index"
                     THEN calculateHypeScore([probe.token EXCEPT !.age = young], draw)
                     ELSE calculateHypeScoreHelius([probe.token EXCEPT !.age = young], draw),
           !.twin = IF variant = "index"
                    THEN calculateHypeScore([probe.token EXCEPT !.age = old], draw)
                    ELSE calculateHypeScoreHelius([probe.token EXCEPT !.age = old], draw)]
    /\ UNCHANGED <<cache, events, loader, ws, lst, ops, runs, lastWrite, srch, link>>

(***************************************************************************)
(* The system                                                              *)
(***************************************************************************)
\* The request bodies of list-token: name and address.
ListBodies == {<<"", "a1">>, <<"Listed", "">>, <<"Listed", "a1">>, <<"Listed", "a2">>}

\* The search cases of the system runs.
SearchCases ==
    { SearchCase("throws", NetworkError, Rnd(0, 50, 50, 0), TRUE),
      SearchCase("ok", Http(TRUE, TRUE, "object", <<>>), Rnd(0, 50, 50, 0), TRUE),
      SearchCase("failed", Http(TRUE, TRUE, "object", <<>>), Rnd(0, 50, 50, 0), TRUE),
      SearchCase("ok", BrokenBody, Rnd(0, 50, 50, 0), TRUE),
      SearchCase("failed", ErrorJson, Rnd(0, 50, 50, 0), TRUE),
      SearchCase("failed", Http(TRUE, TRUE, "object", <<BigPair>>), Rnd(14, 50, 249, 1), TRUE),
      SearchCase("failed", Http(TRUE, TRUE, "object", <<BigPair>>), Rnd(14, 50, 249, 1),
                 FALSE) }

\* The inputs of a discovery run that runs beside other operations.
SystemPrimaryExchanges ==
    {NetworkError}
        \cup {Http(TRUE, TRUE, "object", SubSeq(PrimaryPool, 1, n)) :
                n \in {m \in 0..Len(PrimaryPool) :
                          FreshCount(SubSeq(PrimaryPool, 1, m)) = MaxBatch}}
SystemSecondaryExchanges ==
    {NetworkError,
     Http(TRUE, TRUE, "object", SubSeq(FreshPairs, 1, Min(MaxPairs, Len(FreshPairs))))}
SystemEnrichCases ==
    { EnrichCase(NetworkError, Rnd(0, 50, 50, 0), TRUE),
      EnrichCase(Http(TRUE, TRUE, "object", <<BigPair>>), Rnd(0, 349, 249, 1), TRUE) }

\* A token that an earlier list-token request listed (enriched and stored).
Listed(name, draw) ==
    updateTokenData(BareToken(name, "a1", NotAvailable, TRUE),
                    Http(TRUE, TRUE, "object", <<>>), Rnd(draw, 50, 50, 0), "index").token

\* The cache is empty (a first start), or it holds what earlier runs left:
\* the list of a fallback discovery run and five listings.
ColdCache ==
    /\ newTokens = <<>>
    /\ featuredTokens = <<>>
    /\ featuredExists = FALSE
    /\ allTokens = [a \in Addr |-> NoRecord]

WarmCache ==
    /\ newTokens = TopOf(rankTokens(
           [k \in 1..Len(FreshPairs) |->
               FallbackScored(FallbackToken(FreshPairs[k], 50), Rnd(0, 50, 50, 0))]))
    /\ featuredTokens = << Listed("L5", 4), Listed("L4", 3), Listed("L3", 2),
                           Listed("L2", 1), Listed("L1", 0) >>
    /\ featuredExists = TRUE
    /\ allTokens = [a \in Addr |->
                       IF a = "a1" THEN HashSet(NoRecord, Listed("L5", 4)) ELSE NoRecord]

Idle ==
    /\ newTokenEvents = [a \in Addr |-> 0]
    /\ featuredEvents = [a \in Addr |-> 0]
    /\ loader = IdleLoader
    /\ ws = [s \in WsSlots |-> IdleWs]
    /\ lst = [s \in ListSlots |-> IdleList]
    /\ srch = IdleSearch
    /\ ops = 0
    /\ runs = 0
    /\ lastWrite = NoWrite

Init == (ColdCache \/ WarmCache) /\ Idle /\ probe = IdleProbe /\ link = Subscribed

InitProbe ==
    /\ ColdCache
    /\ Idle
    /\ \E t \in ProbeTokens : probe = [IdleProbe EXCEPT !.phase = "input", !.token = t]
    /\ link = Subscribed

\* The message handlers of the listener that run in the given slots.
ListenerOn(slots) ==
    \/ \E s \in slots : WsFree(s) /\ ops < MaxOps /\ \E frame \in Frames : WsMessage(s, frame)
    \/ \E s \in slots, cacheOk \in BOOLEAN : WsChecked(s, cacheOk)
    \/ \E s \in slots : ws[s].pc = "enrich" /\ \E case \in EnrichCases : WsEnriched(s, case)
    \/ \E s \in slots, cacheOk \in BOOLEAN : WsListRead(s, cacheOk)
    \/ \E s \in slots, cacheOk \in BOOLEAN : WsPersisted(s, cacheOk)

Listener == ListenerOn(WsSlots)

Handlers ==
    \/ \E s \in ListSlots :
          ListFree(s) /\ ops < MaxOps
             /\ \E v \in {"index", "helius"}, body \in ListBodies :
                   ListRequested(s, v, body[1], body[2])
    \/ \E s \in ListSlots : lst[s].pc = "enrich" /\ \E case \in EnrichCases : ListEnriched(s, case)
    \/ \E s \in ListSlots, cacheOk \in BOOLEAN : ListRead(s, cacheOk)
    \/ \E s \in ListSlots, cacheOk \in BOOLEAN : ListPersisted(s, cacheOk)
    \/ SearchFree /\ ops < MaxOps
          /\ \E v \in {"index", "helius"}, q \in Addr \cup {""}, cacheOk \in BOOLEAN :
                SearchRequested(v, q, cacheOk)
    \/ srch.pc = "lookup" /\ \E case \in SearchCases : SearchLookedUp(case)

\* The steps of a discovery run that do not depend on the inputs offered.
Loader ==
    \/ \E v \in {"index", "helius"} :
          LoadTokensCalled(v, IF v = "index" THEN "timer" ELSE "startup")
    \/ \E refresh \in BOOLEAN, cacheOk \in BOOLEAN : NewTokensRead(refresh, cacheOk)
    \/ \E cacheOk \in BOOLEAN : PersistNewTokens(cacheOk)
    \/ \E cacheOk \in BOOLEAN : FeaturedChecked(cacheOk)
    \/ \E cacheOk \in BOOLEAN : FeaturedInitialised(cacheOk)
    \/ \E cacheOk \in BOOLEAN : FallbackPersisted(cacheOk)
    \/ \E cacheOk \in BOOLEAN : NewTokensAnswered(cacheOk)

\* The whole backend: discovery, the listener and the handlers interleave.
Next ==
    \/ Loader
    \/ loader.pc = "fetch" /\ \E resp \in SystemPrimaryExchanges : PrimaryFetched(resp)
    \/ loader.pc = "enrich"
          /\ \E i \in loader.pending, case \in SystemEnrichCases : EnrichOne(i, case)
    \/ loader.pc = "fallback"
          /\ \E resp \in SystemSecondaryExchanges : FallbackFetched(resp, "mixed")
    \/ Listener
    \/ Handlers

Spec == Init /\ [][Next]_vars

\* One discovery run on its own, over every answer of the two sources.
NextDiscovery ==
    \/ Loader
    \/ loader.pc = "fetch" /\ \E resp \in PrimaryExchanges : PrimaryFetched(resp)
    \/ loader.pc = "enrich" /\ \E i \in loader.pending, case \in EnrichCases : EnrichOne(i, case)
    \/ loader.pc = "fallback"
          /\ \E resp \in SecondaryExchanges, pattern \in DrawPatterns :
                FallbackFetched(resp, pattern)

SpecDiscovery == Init /\ [][NextDiscovery]_vars

\* One call of calculateHypeScore or of updateTokenData on a drawn token.
NextProbe ==
    \/ \E v \in {"index", "helius"}, draw \in ScoreDraws : ProbeScored(v, draw)
    \/ \E v \in {"index", "helius"}, resp \in MarketExchanges, draw \in SystemScoreDraws :
          ProbeEnriched(v, resp, Rnd(draw, 349, 249, 1))
    \/ \E v \in {"index", "helius"}, draw \in ScoreDraws, young \in YoungAges, old \in OldAges :
          ProbeCompared(v, draw, young, old)

SpecProbe == InitProbe /\ [][NextProbe]_vars

\* The listener from the start of the process: its sockets, its reconnect
\* timers and the messages it handles, one at a time.
InitConn == (ColdCache \/ WarmCache) /\ Idle /\ probe = IdleProbe /\ link = Started

NextConn ==
    \/ connectToHelius
    \/ WsOnOpen
    \/ \E from \in {"connecting", "open"} : WsOnError(from)
    \/ \E from \in {"open", "failing"} : WsOnClose(from)
    \/ ListenerOn({1})

SpecConn == InitConn /\ [][NextConn]_vars

\* A timer set with setTimeout fires while the process runs.
SpecConnLive == SpecConn /\ WF_vars(connectToHelius)

(***************************************************************************)
(* Properties                                                              *)
(***************************************************************************)
ScoreRange == ScoreBase..ScoreCap

Range(seq) == {seq[i] : i \in DOMAIN seq}

\* How often x occurs in list.
Count(list, x) == Cardinality({i \in DOMAIN list : list[i] = x})

\* list is ordered by non-increasing hypeScore and holds the min(5, n)
\* highest-scored of the n candidates.
IsRankedTop(list, candidates) ==
    /\ Len(list) = Min(TopN, Len(candidates))
    /\ \A i \in 1..(Len(list) - 1) : list[i].hypeScore >= list[i + 1].hypeScore
    /\ \A i \in DOMAIN list : Count(list, list[i]) <= Count(candidates, list[i])
    /\ \A k \in DOMAIN candidates :
          Count(candidates, candidates[k]) > Count(list, candidates[k])
              => \A i \in DOMAIN list : candidates[k].hypeScore <= list[i].hypeScore

\* The timestamp is parseable and less than 12 hours before now.
Fresh(ts) == ts.t = "num" /\ DateNow - ts.n < FreshnessWindowMs

\* A pair of the secondary source that is fresh, on the solana chain, with a
\* name (or a symbol to stand for it) and a non-empty address.
Eligible(pair) ==
    /\ Fresh(pair.pairCreatedAt)
    /\ pair.chainId = "solana"
    /\ pair.baseName # "" \/ pair.baseSymbol # ""
    /\ pair.baseAddress # ""

\* The lookup failed: network error, non-success status, or malformed payload.
ProviderFailed(resp) == ~resp.net \/ ~resp.ok \/ resp.json # "object"

\* C1: for every token (any age string, "N/A" and unparseable ones included,
\* any marketCap, volume and priceChange) and every base draw,
\* calculateHypeScore returns an integer s with 60 <= s <= 95.
C1_ScoreWithinRange ==
    probe.phase = "scored" => probe.score \in Int /\ probe.score \in ScoreRange

\* C1 witness: a token with an unparseable age whose bonuses and draw exceed
\* the cap has been scored, and the score is the cap.
C1_Witness ==
    /\ probe.phase = "scored"
    /\ ~IsNum(ParseInt(probe.token.age))
    /\ probe.draw = 14
    /\ probe.score = ScoreCap

\* C2 (as claimed): in every reachable state every Token Record held in the
\* cache (new-tokens list, featured-tokens list, per-address store) has
\* hypeScore in [60, 95].
C2_CachedScoresInRange ==
    /\ \A i \in DOMAIN newTokens : newTokens[i].hypeScore \in ScoreRange
    /\ \A i \in DOMAIN featuredTokens : featuredTokens[i].hypeScore \in ScoreRange
    /\ \A a \in Addr : HashHasAddress(allTokens[a]) => allTokens[a].hypeScore \in ScoreRange

\* C3: in every reachable state, under any interleaving of discovery runs,
\* live-event handlers and list-token requests, the new-tokens list and the
\* featured-tokens list each hold at most 5 entries.
C3_ListsBounded == Len(newTokens) <= 5 /\ Len(featuredTokens) <= 5

\* C3 witness: a listing was stored on a full featured list (the oldest entry
\* L1 is gone), and the new-tokens list was written from six candidates.
C3_Witness ==
    /\ \E s \in ListSlots : lst[s].pc = "done" /\ lst[s].status = 200
    /\ Len(featuredTokens) = 5
    /\ featuredTokens[1].name = "Listed"
    /\ featuredTokens[5].name = "L2"
    /\ Len(lastWrite.candidates) = 6
    /\ Len(newTokens) = 5

\* C4: every value written to the new-tokens list (by discovery from the
\* primary or the fallback source, and by the live listener) is ordered by
\* non-increasing hypeScore and is exactly the min(5, n) highest-scored of
\* the n candidates being ranked.
C4_WritesRankedTop ==
    lastWrite.by # "none" => IsRankedTop(newTokens, lastWrite.candidates)

\* C4 witness: after a discovery run wrote the list from the fallback source,
\* the listener wrote it from six candidates that were not in order.
C4_Witness ==
    /\ lastWrite.by = "listener"
    /\ loader.secondary = "ok"
    /\ loader.writes = 1
    /\ Len(lastWrite.candidates) = 6
    /\ \E i \in 1..5 : lastWrite.candidates[i].hypeScore < lastWrite.candidates[i + 1].hypeScore

C6_FallbackRanksSecondary ==
    loader.variant = "index" /\ loader.primary = "failed" /\ loader.pc \in {"reread", "done"}
        => /\ loader.secondary # "none"
           /\ loader.secondary = "ok" /\ loader.writes = 1 =>
                 /\ lastWrite.by = "fallback"
                 /\ Len(lastWrite.candidates) = Len(SelectSeq(lastWrite.pairs, Eligible))
                 /\ \A k \in DOMAIN lastWrite.candidates :
                       /\ lastWrite.candidates[k].address =
                              SelectSeq(lastWrite.pairs, Eligible)[k].baseAddress
                       /\ lastWrite.candidates[k].hypeScore \in ScoreRange
                 /\ IsRankedTop(newTokens, lastWrite.candidates)

\* C6 witness: the primary failed, the fallback stored five of its six
\* eligible pairs' tokens.
C6_Witness ==
    /\ loader.pc = "done"
    /\ loader.primary = "failed"
    /\ loader.secondary = "ok"
    /\ loader.writes = 1
    /\ Len(lastWrite.candidates) = 6
    /\ Len(newTokens) = 5

\* C7: when the primary and the secondary source both fail in a discovery
\* run, the new-tokens list after the run equals the list before the run, and
\* the run returns to its caller (the read handler goes on to answer).
C7_BothFailLeavesList ==
    [][loader.pc = "fallback" /\ loader.primary = "failed" /\ loader'.secondary = "failed"
          => /\ newTokens' = loader.before
             /\ loader'.before = loader.before
             /\ loader'.writes = 0
             /\ loader'.status = 0
             /\ loader'.pc = IF loader.caller = "get" THEN "reread" ELSE "done"]_vars

\* C7 witness: both sources failed in a run that the read handler started on
\* a full list; the list is as before and the handler answered 200.
C7_Witness ==
    /\ loader.pc = "done"
    /\ loader.caller = "get"
    /\ loader.primary = "failed"
    /\ loader.secondary = "failed"
    /\ loader.status = 200
    /\ Len(newTokens) = 5
    /\ newTokens = loader.before

\* C8: when the listener's check finds that the address of a mint event has
\* a record (an address field) in the per-address store, the handler ends
\* without enrichment, the new-tokens list and the store stay as they are,
\* and no notification is published.
C8_DuplicateIsDropped ==
    [][\A s \in WsSlots :
          /\ ws[s].pc = "hexists"
          /\ ws'[s] # ws[s]
          /\ HashHasAddress(allTokens[ws[s].token.address])
          /\ ws'[s].outcome # "error"
          => /\ ws'[s].pc = "done"
             /\ ws'[s].outcome = "duplicate"
             /\ UNCHANGED <<newTokens, allTokens, newTokenEvents, featuredEvents>>]_vars

\* C8 witness: a handler ended on a duplicate whose record is in the store.
C8_Witness ==
    \E s \in WsSlots :
        /\ ws[s].pc = "done"
        /\ ws[s].outcome = "duplicate"
        /\ HashHasAddress(allTokens[ws[s].token.address])

\* C9: a list-token request that lacks name or address is answered 400, and
\* the featured list, the new-tokens list, the per-address store and the
\* notifications stay as they are.
C9_IncompleteListingRejected ==
    [][\A s \in ListSlots :
          /\ ListFree(s)
          /\ lst'[s] # lst[s]
          /\ lst'[s].token.name = "" \/ lst'[s].token.address = ""
          => /\ lst'[s].pc = "done"
             /\ lst'[s].status = 400
             /\ UNCHANGED <<cache, events>>]_vars

\* C9 witness: a request without address was answered 400.
C9_Witness ==
    \E s \in ListSlots :
        lst[s].pc = "done" /\ lst[s].status = 400 /\ lst[s].token.address = ""

\* C10 (as claimed): when the provider lookup fails by network error, by a
\* non-success status or by a malformed payload, updateTokenData returns the
\* token with every field as it was before the call.
C10_FailureLeavesToken ==
    probe.phase = "enriched" /\ ProviderFailed(probe.resp) => probe.after = probe.token

\* C11 (as claimed): for every Query Service operation (new-tokens read,
\* list-token, search) an upstream-provider error (network failure,
\* non-success status, malformed JSON) is caught and degrades to a default or
\* unmodified value; it never makes the operation answer 500.
C11_ProviderErrorNever500 ==
    [][/\ \A s \in ListSlots : lst[s].pc = "enrich" => lst'[s].status # 500
       /\ loader.pc \in {"fetch", "fallback"} => loader'.status # 500
       /\ loader.pc = "enrich" /\ loader.pending # {} => loader'.status # 500
       /\ /\ srch.pc = "lookup"
          /\ srch'.pc = "done"
          /\ srch'.lookup.cacheOk
          /\ \/ srch.variant = "index" /\ srch'.lookup.meta \in {"throws", "failed"}
             \/ ProviderFailed(srch'.lookup.resp)
          => srch'.status # 500]_vars

\* C12 (as claimed): with the base draw pinned and marketCap, volume and
\* priceChange fixed, calculateHypeScore of a token with age < 3h is exactly
\* 15 greater than that of the same token with age >= 6h.
C12_YoungAdds15 ==
    probe.phase = "compared" => probe.score = probe.twin + 15

\* C12 (amended): with the same pinned draw and market values, the score at
\* age < 3h is min(95, s + 15) where s is the score at age >= 6h: exactly 15
\* greater when s <= 80, and 95 otherwise.
C12_YoungAdds15UpToCap ==
    probe.phase = "compared" =>
        /\ probe.score = IF probe.twin + 15 <= 95 THEN probe.twin + 15 ELSE 95
        /\ probe.twin <= 80 => probe.score = probe.twin + 15

\* C12 witness: the two scores of a token with a volume bonus were compared;
\* the older scores 80 and the younger 95 without the cap cutting anything.
C12_Witness ==
    /\ probe.phase = "compared"
    /\ probe.twin = 80
    /\ probe.score = 95
    /\ probe.draw < 14

\* C13: whenever the listener's connection emits an error or a close, a new
\* connection attempt is eventually made after the fixed 5-second delay,
\* without a retry limit, and the listener is never left with no socket
\* connecting or open and no reconnect pending.
C13_ReconnectEventually ==
    /\ [](link.connecting + link.open = 0 => link.timers # <<>>)
    /\ [](\A k \in 1..Len(link.timers) : link.timers[k] = ReconnectDelayMs)
    /\ (link.last \in {"error", "close"}) ~> (link.last = "connect")

C13_Witness == link.retried /\ link.last = "connect" /\ link.open = 0 /\ link.failing = 0

C19_SingleLink == link.connecting + link.open + Len(link.timers) <= 1

\* C14: in a discovery run whose primary fetch succeeded, nothing is ranked
\* or persisted and the run is not aborted while an enrichment of the batch
\* is pending, whatever the outcome of the others; the list persisted
\* afterwards is the ranked top of one candidate per admitted entry, the
\* tokens whose enrichment failed included.
C14_PersistAfterAllSettled ==
    [][/\ loader.pc = "enrich" /\ loader.pending # {}
          => /\ loader'.pc = "enrich"
             /\ loader'.pending \subseteq loader.pending
             /\ Len(loader'.batch) = Len(loader.admitted)
             /\ newTokens' = newTokens
             /\ lastWrite' = lastWrite
       /\ loader.pc = "enrich" /\ loader'.writes = loader.writes + 1
          => /\ loader.pending = {}
             /\ lastWrite'.by = "primary"
             /\ Len(lastWrite'.candidates) = Len(loader.admitted)
             /\ \A k \in 1..Len(loader.admitted) :
                   lastWrite'.candidates[k].address = loader.data[loader.admitted[k]].address
             /\ newTokens' = TopOf(rankTokens(lastWrite'.candidates))
             /\ Len(loader.admitted) <= TopN
                   => \A k \in 1..Len(loader.admitted) :
                         \E i \in DOMAIN newTokens' :
                            newTokens'[i] = lastWrite'.candidates[k]]_vars

C14_Witness ==
    /\ lastWrite.by = "primary"
    /\ loader.writes = 1
    /\ Len(newTokens) = 2
    /\ newTokens[1].hypeScore >= ScoreBase
    /\ newTokens[2].hypeScore = 0
    /\ newTokens[2].chartData = <<>>

\* The tokens of a list that have the given hypeScore, in list order.
Scored(list, v) == SelectSeq(list, LAMBDA t : t.hypeScore = v)

IsPrefix(a, b) == Len(a) <= Len(b) /\ a = SubSeq(b, 1, Len(a))

\* C15: ranking is stable: the tokens of equal hypeScore stand in the ranked
\* list in the order they had before ranking, and a token the listener
\* prepended stands before every cached token of its score.
C15_RankingStable ==
    lastWrite.by # "none" =>
        /\ \A i \in DOMAIN newTokens :
              IsPrefix(Scored(newTokens, newTokens[i].hypeScore),
                       Scored(lastWrite.candidates, newTokens[i].hypeScore))
        /\ lastWrite.by = "listener" =>
              \A i \in DOMAIN newTokens :
                 newTokens[i].hypeScore = lastWrite.candidates[1].hypeScore
                    => \E k \in 1..i :
                          /\ newTokens[k] = lastWrite.candidates[1]
                          /\ \A j \in 1..(k - 1) :
                                newTokens[j].hypeScore > newTokens[k].hypeScore

C15_Witness ==
    /\ lastWrite.by = "listener"
    /\ Len(newTokens) >= 2
    /\ \E i \in 1..(Len(newTokens) - 1) :
          /\ newTokens[i] = lastWrite.candidates[1]
          /\ newTokens[i + 1].hypeScore = newTokens[i].hypeScore
          /\ newTokens[i + 1] # newTokens[i]

\* "N/A", or "<n>h" with n a natural number below 12.
IsAge(age) == age = NotAvailable \/ \E n \in 0..11 : age = NatToChars(n) \o <<"h">>

\* C16: every Token Record of the new-tokens list, of the featured-tokens
\* list and of the per-address store has an age that is "N/A" or "<n>h" with
\* 0 <= n < 12.
C16_AgeWellFormed ==
    /\ \A i \in DOMAIN newTokens : IsAge(newTokens[i].age)
    /\ \A i \in DOMAIN featuredTokens : IsAge(featuredTokens[i].age)
    /\ \A a \in Addr : HashHasAddress(allTokens[a]) => IsAge(allTokens[a].age)

\* C18: writers of a cached list are not serialized. A list-token request
\* that read the featured-tokens list before another request's token was
\* written stores its own list over it: the list then holds its token and
\* not the other's, though both are answered with success. A live-event
\* handler or a discovery run that writes the new-tokens list does the same
\* to the token an earlier handler stored.
C18_LastWriteWins ==
    [][/\ \A s, t \in ListSlots :
             /\ lst[s].pc = "done" /\ lst[s].status = 200
             /\ lst[t].pc = "set" /\ lst'[t].pc = "done" /\ lst'[t].status = 200
             /\ lst[s].token.address # lst[t].token.address
             /\ Holds(featuredTokens, lst[s].token)
             /\ ~Holds(lst[t].local, lst[s].token)
             => /\ Holds(featuredTokens', lst[t].token)
                /\ ~Holds(featuredTokens', lst[s].token)
       /\ \A s, t \in WsSlots :
             /\ ws[s].pc = "done" /\ ws[s].outcome = "published"
             /\ ws[t].pc = "set" /\ ws'[t].outcome = "published"
             /\ Holds(newTokens, ws[s].token)
             /\ ~Holds(ws[t].local, ws[s].token)
             => /\ newTokens' = TopOf(rankTokens(ws[t].local))
                /\ ~Holds(newTokens', ws[s].token)
       /\ \A s \in WsSlots :
             /\ ws[s].pc = "done" /\ ws[s].outcome = "published"
             /\ loader.pc = "enrich" /\ loader'.writes = loader.writes + 1
             /\ Holds(newTokens, ws[s].token)
             /\ ~Holds(loader.batch, ws[s].token)
             => /\ newTokens' = TopOf(rankTokens(loader.batch))
                /\ ~Holds(newTokens', ws[s].token)]_vars

\* Two list-token requests with distinct addresses were answered with
\* success and the list holds the token of one of them only.
C18_Witness ==
    \E s, t \in ListSlots :
        /\ lst[s].pc = "done" /\ lst[s].status = 200
        /\ lst[t].pc = "done" /\ lst[t].status = 200
        /\ lst[s].token.address # lst[t].token.address
        /\ featuredEvents[lst[s].token.address] = 1
        /\ featuredEvents[lst[t].token.address] = 1
        /\ Len(featuredTokens) < TopN
        /\ Holds(featuredTokens, lst[t].token)
        /\ ~Holds(featuredTokens, lst[s].token)

\* The same between two live-event handlers.
C18_WitnessListeners ==
    \E s, t \in WsSlots :
        /\ ws[s].outcome = "published"
        /\ ws[t].outcome = "published"
        /\ ws[s].token.address # ws[t].token.address
        /\ Len(newTokens) < TopN
        /\ Holds(newTokens, ws[t].token)
        /\ ~Holds(newTokens, ws[s].token)

\* The same between a live-event handler and a discovery run at start-up.
C18_WitnessDiscovery ==
    \E s \in WsSlots :
        /\ ws[s].outcome = "published"
        /\ loader.variant = "helius"
        /\ loader.writes = 1
        /\ lastWrite.by = "primary"
        /\ Len(newTokens) < TopN
        /\ newTokens # <<>>
        /\ ~Holds(newTokens, ws[s].token)

\* C20: for each address, at most one new-token notification is ever
\* published on the new-tokens channel.
C20_NotifiedOnce == \A a \in Addr : newTokenEvents[a] <= 1

\* C21: in every reachable state the new-tokens list holds no two entries
\* with the same address.
C21_AddressesDistinct ==
    \A i, j \in DOMAIN newTokens : newTokens[i].address = newTokens[j].address => i = j

\* C22: a step of a discovery run never removes an entry from the
\* featured-tokens list: it writes the empty list only when the key does
\* not exist, so every token listed with success stays in the list.
C22_DiscoveryKeepsFeatured ==
    [][loader'.pc # loader.pc
          => /\ \A i \in DOMAIN featuredTokens : Holds(featuredTokens', featuredTokens[i])
             /\ featuredTokens' # featuredTokens => ~featuredExists
             /\ \A s \in ListSlots :
                   lst[s].pc = "done" /\ lst[s].status = 200 /\ Holds(featuredTokens, lst[s].token)
                      => Holds(featuredTokens', lst[s].token)]_vars

\* C23: within one discovery run the secondary source is queried only if
\* the primary fetch of the run failed, and the new-tokens list is written
\* at most once: a persisted primary result is never replaced by a
\* fallback result of the same run.
C23_FallbackOnlyAfterPrimaryFailed ==
    /\ loader.pc = "fallback" \/ loader.secondary # "none" => loader.primary = "failed"
    /\ loader.writes <= 1

====
